---- MODULE Spec2Model ----
(***************************************************************************)
(* Model of the si70xx driver (src/src/lib.rs).                            *)
(*                                                                         *)
(* The driver owns an I2C transport and a device address.  Its three       *)
(* operations each make one transport call; the two read operations then   *)
(* convert the two bytes the transport delivered.  The conversions are     *)
(* written in u32 arithmetic, which is modelled on 16-bit limbs so that a  *)
(* wrap of the 32-bit subtraction is a value of the model and not an       *)
(* integer beyond the model checker's 32 bits.                             *)
(*                                                                         *)
(* The transport is the environment: for every call it either succeeds,    *)
(* filling the read buffer with two bytes, or fails with an error of its   *)
(* own.  `bus` is what a recording transport double observes.              *)
(*                                                                         *)
(* The sync and async bodies of each operation differ only in `.await`;    *)
(* one action models both.                                                 *)
(***************************************************************************)
EXTENDS Integers, Sequences, FiniteSets, TLC

VARIABLES
    si7013,           \* build feature "si7013": the constructor takes an Address
    overflow_checks,  \* build profile: arithmetic overflow panics (debug) or wraps (release)
    ctor_addr,        \* the Address given to new(), "none" in the fixed-address build
    addr,             \* Si70xx.addr
    ops,              \* the driver operations called so far, in order
    bus,              \* the transport calls made so far (Si70xx.i2c, as a recording double)
    tresult,          \* the transport's result of the latest transport call
    response,         \* the local buffer `response` of the latest read operation
    wrapped,          \* an arithmetic step of the latest operation left the range of u32
    ret               \* what the latest operation returned to its caller

vars == <<si7013, overflow_checks, ctor_addr, addr, ops, bus, tresult, response, wrapped, ret>>

(***************************************************************************)
(* Bounds and inputs of the model.                                         *)
(***************************************************************************)
\* Number of driver operations in one run.
MaxCalls == 3

\* High and low bytes the transport delivers in the protocol specification:
\* 0x0000 and 0xFFFF, 0x0C49/0x0C4A (humidity crosses 0 %), 0x4441/0x4442
\* (temperature crosses 0 C), 0x6A37 and 0x6357 (the documented readings).
SampleHi == {0, 12, 68, 99, 106, 255}
SampleLo == {0, 55, 65, 66, 73, 74, 87, 255}

\* Every byte: the transport's whole answer space.
Byte == 0..255

\* The transport's own error values (the type parameter E).
TransportErrors == {"NoAcknowledge", "ArbitrationLoss"}

\* What a failed transport call can leave in the read buffer: nothing, or a
\* first byte received before the failure.
FailedBuffers == {<<0, 0>>, <<106, 0>>}

(***************************************************************************)
(* Constants of the driver.                                                *)
(***************************************************************************)
I2C_ADDR == 64

H40 == 64

H41 == 65

MeasureRhHoldMaster == 229

ReadTemperatureFromRh == 224

Address == {"H40", "H41"}

\* `addr as u8` of the #[repr(u8)] enum Address.
AddressAsU8(a) == IF a = "H40" THEN H40 ELSE H41

(***************************************************************************)
(* Results: Result<T, Error<E>>, and a panic of the operation.             *)
(***************************************************************************)
NoError == [variant |-> "none", inner |-> "none"]

\* Error::I2c(e)
I2c(e) == [variant |-> "I2c", inner |-> e]

NotCalled == [kind |-> "NotCalled", has_val |-> FALSE, val |-> 0, err |-> NoError]

OkUnit == [kind |-> "Ok", has_val |-> FALSE, val |-> 0, err |-> NoError]

Ok(v) == [kind |-> "Ok", has_val |-> TRUE, val |-> v, err |-> NoError]

Err(e) == [kind |-> "Err", has_val |-> FALSE, val |-> 0, err |-> e]

Panic == [kind |-> "Panic", has_val |-> FALSE, val |-> 0, err |-> NoError]

\* `.map_err(Error::I2c)?` applied to a transport result that is an error.
MapErr(e) == Err(I2c(e))

(***************************************************************************)
(* u32 arithmetic on two 16-bit limbs, value = hi * 65536 + lo.            *)
(***************************************************************************)
\* The bytes taken in the other order (u16::from_le_bytes).
from_le_bytes(b) == b[2] * 256 + b[1]

\* u16::from_be_bytes([b[1], b[2]])
from_be_bytes(b) == b[1] * 256 + b[2]

\* `x as u32` of a u16: zero extension.
U16AsU32(x) == [hi |-> 0, lo |-> x]

\* The u32 literal k.
LitU32(k) == [hi |-> k \div 65536, lo |-> k % 65536]

\* k * x in u32, k a literal below 65536: the wrapped product and whether the
\* true product left the range of u32.
MulU32(k, x) ==
    LET pl == k * x.lo
        ph == k * x.hi + pl \div 65536
    IN  [val |-> [hi |-> ph % 65536, lo |-> pl % 65536], overflow |-> ph > 65535]

\* x / 65536 in u32: the high limb.
DivU32By65536(x) == [hi |-> 0, lo |-> x.hi]

\* x - y in u32: the wrapped difference and whether the true difference is
\* below 0.
SubU32(x, y) ==
    LET dl == x.lo - y.lo
        borrow == IF dl < 0 THEN 1 ELSE 0
        dh == x.hi - y.hi - borrow
    IN  [val |-> [hi |-> IF dh < 0 THEN dh + 65536 ELSE dh,
                  lo |-> IF dl < 0 THEN dl + 65536 ELSE dl],
         overflow |-> dh < 0]

\* `x as u16` of a u32: truncation to the low 16 bits.
U32AsU16(x) == x.lo

\* `x as i16` of a u32: the low 16 bits read as two's complement.
U32AsI16(x) == IF x.lo >= 32768 THEN x.lo - 65536 ELSE x.lo

(***************************************************************************)
(* The conversions of read_humidity and read_temperature.                  *)
(***************************************************************************)
\* let rh_code = (u16::from_be_bytes([response[0], response[1]])) as u32;
\* ((12500 * rh_code) / 65536 - 600) as u16
HumidityConversion(resp) ==
    LET rh_code == U16AsU32(from_be_bytes(resp))
        prod == MulU32(12500, rh_code)
        diff == SubU32(DivU32By65536(prod.val), LitU32(600))
    IN  [val |-> U32AsU16(diff.val), overflow |-> prod.overflow \/ diff.overflow]

\* The temperature conversion with the humidity formula's constants.
TemperatureConversion_humidity_constants(resp) == HumidityConversion(resp)

\* let temp_code = (u16::from_be_bytes([response[0], response[1]])) as u32;
\* ((17572 * temp_code) / 65536 - 4685) as i16
TemperatureConversion(resp) ==
    LET temp_code == U16AsU32(from_be_bytes(resp))
        prod == MulU32(17572, temp_code)
        diff == SubU32(DivU32By65536(prod.val), LitU32(4685))
    IN  [val |-> U32AsI16(diff.val), overflow |-> prod.overflow \/ diff.overflow]

\* What the operation gives its caller for a conversion result: with overflow
\* checks an overflowing step panics, without them the wrapped value is
\* returned.
Converted(conv) == IF conv.overflow /\ overflow_checks THEN Panic ELSE Ok(conv.val)

(***************************************************************************)
(* Transport calls.                                                        *)
(***************************************************************************)
\* The measure command sent with the other command code.
MeasureTransaction_wrong_command ==
    [kind |-> "write", addr |-> addr, bytes |-> <<ReadTemperatureFromRh>>, rdlen |-> 0]

\* self.i2c.write(self.addr, &[Command::MeasureRhHoldMaster as u8])
MeasureTransaction ==
    [kind |-> "write", addr |-> addr, bytes |-> <<MeasureRhHoldMaster>>, rdlen |-> 0]

\* The humidity read sent to the default address whatever new() was given.
HumidityTransaction_default_addr ==
    [kind |-> "read", addr |-> I2C_ADDR, bytes |-> <<>>, rdlen |-> 2]

\* self.i2c.read(self.addr, &mut response)
HumidityTransaction ==
    [kind |-> "read", addr |-> addr, bytes |-> <<>>, rdlen |-> 2]

\* self.i2c.write_read(self.addr, &[Command::ReadTemperatureFromRh as u8], &mut response)
TemperatureTransaction ==
    [kind |-> "write_read", addr |-> addr, bytes |-> <<ReadTemperatureFromRh>>, rdlen |-> 2]

\* The operations end with the program when one of them panicked.
Running == ret.kind # "Panic"

(***************************************************************************)
(* Construction.                                                           *)
(***************************************************************************)
\* Si70xx::new: addr is I2C_ADDR, or `addr as u8` in the si7013 build.
new(feature, a) == IF feature THEN AddressAsU8(a) ELSE I2C_ADDR

Init ==
    /\ si7013 \in BOOLEAN
    /\ overflow_checks \in BOOLEAN
    /\ ctor_addr \in (IF si7013 THEN Address ELSE {"none"})
    /\ addr = new(si7013, ctor_addr)
    /\ ops = <<>>
    /\ bus = <<>>
    /\ tresult = "none"
    /\ response = <<0, 0>>
    /\ wrapped = FALSE
    /\ ret = NotCalled

\* The shape of the state: the build, the driver's fields, the transport
\* double's log and the latest operation's locals and result.
TypeOK ==
    /\ si7013 \in BOOLEAN
    /\ overflow_checks \in BOOLEAN
    /\ ctor_addr \in Address \cup {"none"}
    /\ addr \in 0..255
    /\ ops \in Seq({"measure", "read_humidity", "read_temperature"})
    /\ \A i \in 1..Len(bus) :
          /\ bus[i].kind \in {"write", "read", "write_read"}
          /\ bus[i].addr \in 0..255
          /\ bus[i].rdlen \in {0, 2}
    /\ tresult \in {"none", "Ok"} \cup TransportErrors
    /\ response \in Byte \X Byte
    /\ wrapped \in BOOLEAN
    /\ ret.kind \in {"NotCalled", "Ok", "Err", "Panic"}
    /\ ret.val \in -32768..65535

(***************************************************************************)
(* The operations.                                                         *)
(***************************************************************************)
Measure(limit) ==
    /\ Running
    /\ Len(ops) < limit
    /\ ops' = Append(ops, "measure")
    /\ bus' = Append(bus, MeasureTransaction)
    /\ response' = <<0, 0>>
    /\ wrapped' = FALSE
    /\ \/ /\ tresult' = "Ok"
          /\ ret' = OkUnit
       \/ \E e \in TransportErrors :
            /\ tresult' = e
            /\ ret' = MapErr(e)
    /\ UNCHANGED <<si7013, overflow_checks, ctor_addr, addr>>

\* read_humidity dropping the transport's error and converting the buffer as
\* it was left.
ReadHumidity_ignores_error(limit, his, los) ==
    /\ Running
    /\ Len(ops) < limit
    /\ ops' = Append(ops, "read_humidity")
    /\ bus' = Append(bus, HumidityTransaction)
    /\ \/ \E b0 \in his, b1 \in los :
            /\ tresult' = "Ok"
            /\ response' = <<b0, b1>>
       \/ \E e \in TransportErrors, buf \in FailedBuffers :
            /\ tresult' = e
            /\ response' = buf
    /\ wrapped' = HumidityConversion(response').overflow
    /\ ret' = Converted(HumidityConversion(response'))
    /\ UNCHANGED <<si7013, overflow_checks, ctor_addr, addr>>

ReadHumidity(limit, his, los) ==
    /\ Running
    /\ Len(ops) < limit
    /\ ops' = Append(ops, "read_humidity")
    /\ bus' = Append(bus, HumidityTransaction)
    /\ \/ \E b0 \in his, b1 \in los :
            /\ tresult' = "Ok"
            /\ response' = <<b0, b1>>
            /\ wrapped' = HumidityConversion(response').overflow
            /\ ret' = Converted(HumidityConversion(response'))
       \/ \E e \in TransportErrors, buf \in FailedBuffers :
            /\ tresult' = e
            /\ response' = buf
            /\ wrapped' = FALSE
            /\ ret' = MapErr(e)
    /\ UNCHANGED <<si7013, overflow_checks, ctor_addr, addr>>

\* read_temperature sending the command and reading the answer as two
\* transport calls.
ReadTemperature_split(limit, his, los) ==
    /\ Running
    /\ Len(ops) < limit
    /\ ops' = Append(ops, "read_temperature")
    /\ bus' = bus \o <<[kind |-> "write", addr |-> addr,
                        bytes |-> <<ReadTemperatureFromRh>>, rdlen |-> 0],
                       [kind |-> "read", addr |-> addr, bytes |-> <<>>, rdlen |-> 2]>>
    /\ \/ \E b0 \in his, b1 \in los :
            /\ tresult' = "Ok"
            /\ response' = <<b0, b1>>
            /\ wrapped' = TemperatureConversion(response').overflow
            /\ ret' = Converted(TemperatureConversion(response'))
       \/ \E e \in TransportErrors, buf \in FailedBuffers :
            /\ tresult' = e
            /\ response' = buf
            /\ wrapped' = FALSE
            /\ ret' = MapErr(e)
    /\ UNCHANGED <<si7013, overflow_checks, ctor_addr, addr>>

ReadTemperature(limit, his, los) ==
    /\ Running
    /\ Len(ops) < limit
    /\ ops' = Append(ops, "read_temperature")
    /\ bus' = Append(bus, TemperatureTransaction)
    /\ \/ \E b0 \in his, b1 \in los :
            /\ tresult' = "Ok"
            /\ response' = <<b0, b1>>
            /\ wrapped' = TemperatureConversion(response').overflow
            /\ ret' = Converted(TemperatureConversion(response'))
       \/ \E e \in TransportErrors, buf \in FailedBuffers :
            /\ tresult' = e
            /\ response' = buf
            /\ wrapped' = FALSE
            /\ ret' = MapErr(e)
    /\ UNCHANGED <<si7013, overflow_checks, ctor_addr, addr>>

measure == Measure(MaxCalls)

read_humidity == ReadHumidity(MaxCalls, SampleHi, SampleLo)

read_temperature == ReadTemperature(MaxCalls, SampleHi, SampleLo)

Next ==
    \/ measure
    \/ read_humidity
    \/ read_temperature

\* Any sequence of up to MaxCalls operations, the transport answering with the
\* sample codes.
Spec == Init /\ [][Next]_vars

(***************************************************************************)
(* One read operation on a fresh driver, the transport answering with any  *)
(* of the 65536 raw codes.                                                 *)
(***************************************************************************)
read_humidity_any_code == ReadHumidity(1, Byte, Byte)

read_temperature_any_code == ReadTemperature(1, Byte, Byte)

NextAnyCode ==
    \/ read_humidity_any_code
    \/ read_temperature_any_code

SpecAnyCode == Init /\ [][NextAnyCode]_vars

(***************************************************************************)
(* Vocabulary of the properties.                                           *)
(***************************************************************************)
Called == Len(ops) > 0

LastOp == ops[Len(ops)]

LastTransaction == bus[Len(bus)]

\* The raw code the transport delivered: two bytes, big-endian.
RawCode == response[1] * 256 + response[2]

\* The latest operation was `op` and its transport call succeeded.
Answered(op) == Called /\ LastOp = op /\ tresult = "Ok"

\* floor(12500 * c / 65536) - 600
HumidityFormula(c) == (12500 * c) \div 65536 - 600

\* floor(17572 * c / 65536) - 4685
TemperatureFormula(c) == (17572 * c) \div 65536 - 4685

\* The address the driver was constructed for.
ConfiguredAddress ==
    IF si7013 THEN (IF ctor_addr = "H41" THEN 65 ELSE 64) ELSE 64

(***************************************************************************)
(* Properties.                                                             *)
(***************************************************************************)
\* C1: for every raw code c a successful read_humidity returns exactly
\* floor(12500*c / 65536) - 600, and no arithmetic step of the computation
\* leaves the range of its integer type.
C1_HumidityExactNoOverflow ==
    Answered("read_humidity") =>
        /\ ret = Ok(HumidityFormula(RawCode))
        /\ ~wrapped

\* C2: for every raw code c a successful read_temperature returns
\* floor(17572*c / 65536) - 4685, and neither the product nor the subtraction
\* leaves the range of the type it is performed in.
C2_TemperatureExactNoOverflow ==
    Answered("read_temperature") =>
        /\ ret = Ok(TemperatureFormula(RawCode))
        /\ ~wrapped

\* C3 as stated: when the transport answers read_humidity with [0x6A, 0x37],
\* read_humidity returns 4578.
C3_Humidity6A37Is4578 ==
    (Answered("read_humidity") /\ response = <<106, 55>>) => ret = Ok(4578)

\* C3 as amended: when the transport answers read_humidity with [0x6A, 0x37]
\* (raw code 27191), read_humidity returns 4586.
C3_Humidity6A37Is4586 ==
    (Answered("read_humidity") /\ response = <<106, 55>>) =>
        /\ RawCode = 27191
        /\ ret = Ok(4586)

C3_Witness ==
    /\ Answered("read_humidity")
    /\ response = <<106, 55>>
    /\ ret.kind = "Ok"

\* C4 as stated: when the transport answers read_temperature with
\* [0x63, 0x57], read_temperature returns 2333.
C4_Temperature6357Is2333 ==
    (Answered("read_temperature") /\ response = <<99, 87>>) => ret = Ok(2333)

\* C4 as amended: when the transport answers read_temperature with
\* [0x63, 0x57] (raw code 25431), read_temperature returns 2133.
C4_Temperature6357Is2133 ==
    (Answered("read_temperature") /\ response = <<99, 87>>) =>
        /\ RawCode = 25431
        /\ ret = Ok(2133)

C4_Witness ==
    /\ Answered("read_temperature")
    /\ response = <<99, 87>>
    /\ ret.kind = "Ok"

\* C5: every call of measure(), succeeding or failing, makes exactly one
\* transport call: a write of the single byte 0xE5 to the configured address,
\* and no read or write-then-read.
C5_MeasureOneWrite ==
    [][ops' = Append(ops, "measure") =>
          bus' = Append(bus, [kind |-> "write", addr |-> ConfiguredAddress,
                              bytes |-> <<229>>, rdlen |-> 0])]_vars

C5_Witness ==
    /\ Len(ops) >= 2
    /\ ops[1] = "measure"
    /\ LastOp = "measure"
    /\ tresult \in TransportErrors
    /\ Len(bus) = Len(ops)

\* C6: every call of read_humidity() makes exactly one transport call, a plain
\* read of 2 bytes with nothing written; every call of read_temperature()
\* makes exactly one transport call, a write-then-read with write payload
\* [0xE0] and a 2-byte read buffer; both go to the configured address.
C6_ReadsOneTransaction ==
    [][/\ ops' = Append(ops, "read_humidity") =>
            bus' = Append(bus, [kind |-> "read", addr |-> ConfiguredAddress,
                                bytes |-> <<>>, rdlen |-> 2])
       /\ ops' = Append(ops, "read_temperature") =>
            bus' = Append(bus, [kind |-> "write_read", addr |-> ConfiguredAddress,
                                bytes |-> <<224>>, rdlen |-> 2])]_vars

C6_Witness ==
    /\ Len(ops) >= 2
    /\ ops[Len(ops) - 1] = "read_humidity"
    /\ LastOp = "read_temperature"
    /\ LastTransaction.kind = "write_read"
    /\ bus[Len(bus) - 1].kind = "read"

\* C7: if the transport call of measure, read_humidity or read_temperature
\* fails with error e, the operation returns Error::I2c(e) with that e,
\* returns no measurement value, and makes no further transport call.
C7_ErrorPropagates ==
    [][tresult' \in TransportErrors =>
          /\ ret' = [kind |-> "Err", has_val |-> FALSE, val |-> 0,
                     err |-> [variant |-> "I2c", inner |-> tresult']]
          /\ Len(bus') = Len(bus) + 1]_vars

C7_Witness ==
    /\ Called
    /\ LastOp = "read_humidity"
    /\ tresult = "ArbitrationLoss"
    /\ response # <<0, 0>>
    /\ ret.kind = "Err"

\* C8: the device address is fixed at construction and never changes: every
\* transport call of any sequence of operations targets the address given to
\* new() in the dual-address build and 0x40 in the fixed-address build.
C8_AddressFixed ==
    /\ addr = ConfiguredAddress
    /\ ConfiguredAddress \in {64, 65}
    /\ ~si7013 => ConfiguredAddress = 64
    /\ \A i \in 1..Len(bus) : bus[i].addr = ConfiguredAddress

C8_Witness ==
    /\ si7013
    /\ ctor_addr = "H41"
    /\ Len(bus) >= 3
    /\ {bus[i].kind : i \in 1..Len(bus)} = {"write", "read", "write_read"}
    /\ tresult \in TransportErrors

\* C9: the humidity conversion is monotonic non-decreasing in the raw code:
\* of two read_humidity calls that return a value, the one given the smaller
\* raw code returns the smaller or equal value.
C9_HumidityMonotonic ==
    [][(/\ Answered("read_humidity")
        /\ ret.kind = "Ok"
        /\ Answered("read_humidity")'
        /\ ret'.kind = "Ok"
        /\ RawCode <= RawCode') => ret.val <= ret'.val]_vars

\* C10: the driver keeps no protocol state: whatever ran before (no measure,
\* a failed measure), a read operation whose transport call succeeds issues
\* its transaction to the configured address and returns the converted value,
\* which depends on the transport's answer alone.
C10_ReadsReturnValueInAnyOrder ==
    /\ Answered("read_humidity") =>
          /\ LastTransaction = [kind |-> "read", addr |-> ConfiguredAddress,
                                bytes |-> <<>>, rdlen |-> 2]
          /\ ret = Ok(HumidityFormula(RawCode) % 65536)
    /\ Answered("read_temperature") =>
          /\ LastTransaction = [kind |-> "write_read", addr |-> ConfiguredAddress,
                                bytes |-> <<224>>, rdlen |-> 2]
          /\ ret = Ok(TemperatureFormula(RawCode))

(***************************************************************************)
(* What the code does where the properties above fail (checked under       *)
(* SpecAnyCode for all 65536 raw codes, and under Spec for any history).   *)
(***************************************************************************)
\* The u32 subtraction of read_humidity goes below 0 exactly for the raw
\* codes 0..3145; the build with overflow checks panics there, the build
\* without returns the wrapped value 65536 + floor(12500*c/65536) - 600.
HumidityUnderflowRange ==
    Answered("read_humidity") =>
        /\ wrapped <=> RawCode <= 3145
        /\ ret = IF wrapped /\ overflow_checks
                 THEN Panic
                 ELSE Ok(HumidityFormula(RawCode) % 65536)

\* The u32 subtraction of read_temperature goes below 0 exactly for the raw
\* codes 0..17473; the build with overflow checks panics there, the build
\* without returns floor(17572*c/65536) - 4685 after the wrap.
TemperatureUnderflowRange ==
    Answered("read_temperature") =>
        /\ wrapped <=> RawCode <= 17473
        /\ ret = IF wrapped /\ overflow_checks
                 THEN Panic
                 ELSE Ok(TemperatureFormula(RawCode))

\* Whatever operations ran before, a read operation that is still possible is
\* possible with every answer of the transport, and its outcome is the one
\* the two facts above give for that answer.
HistoryIndependent ==
    /\ HumidityUnderflowRange
    /\ TemperatureUnderflowRange
    /\ (Running /\ Len(ops) < MaxCalls) =>
          /\ ENABLED read_humidity
          /\ ENABLED read_temperature

====
